---- MODULE Spec2Model ----
EXTENDS Integers, Naturals, Sequences, FiniteSets, TLC

(***************************************************************************)
(* Verification model of monoio's send operations (driver/op/send.rs) and  *)
(* of the cross-thread wake registry (driver/thread.rs).                   *)
(***************************************************************************)

\* ---------------------------------------------------------------------------
\* Options (Rust Option<T>)
\* ---------------------------------------------------------------------------
None == <<>>
Some(x) == <<x>>

\* ---------------------------------------------------------------------------
\* Bounds
\* ---------------------------------------------------------------------------
\* number of operations a single registry client performs
MaxSeq == 3
\* operations per thread
MaxOps == 2

\* The two global maps UNPARK and WAKER_SENDER
Regs == {"UNPARK", "WAKER_SENDER"}

\* ---------------------------------------------------------------------------
\* FxHashMap<usize, V> as a set of <<key, value>> entries
\* ---------------------------------------------------------------------------
EntriesOf(m, id) == {p \in m : p[1] = id}

\* HashMap::get(&id).cloned() (the clone is accounted for by the caller)
Lookup(m, id) ==
    IF EntriesOf(m, id) = {} THEN None
    ELSE Some((CHOOSE p \in EntriesOf(m, id) : TRUE)[2])

InsertNoReplace(m, id, v) == m \cup {<<id, v>>}
\* HashMap::insert(id, v): replaces any previous value of id
Insert(m, id, v) == (m \ EntriesOf(m, id)) \cup {<<id, v>>}

\* HashMap::remove(&id): no-op when absent
Remove(m, id) == m \ EntriesOf(m, id)

\* ---------------------------------------------------------------------------
\* Reference semantics of a registry: the value of the last register(id, h)
\* not followed by unregister(id). Used by the claims only.
\* ---------------------------------------------------------------------------
RECURSIVE Expected(_, _, _)
Expected(h, r, id) ==
    IF Len(h) = 0 THEN None
    ELSE LET last == h[Len(h)] IN
         IF last.reg = r /\ last.id = id
         THEN (IF last.kind = "register" THEN Some(last.h) ELSE None)
         ELSE Expected(SubSeq(h, 1, Len(h) - 1), r, id)


\* ===========================================================================
\* Send operations (driver/op/send.rs)
\* ===========================================================================
\* EAGAIN re-arms of the readiness path before the operation completes
MaxRetry == 2

\* libc::MSG_NOSIGNAL on Linux
MSG_NOSIGNAL == 16384
\* const MSG_ZEROCOPY: libc::c_int = 0x4000000
MSG_ZEROCOPY == 67108864
\* const MSG_ZEROCOPY_THRESHOLD: usize = 10 * 1024 * 1024
MSG_ZEROCOPY_THRESHOLD == 10 * 1024 * 1024

RECURSIVE BitOr(_, _)
BitOr(a, b) ==
    IF a = 0 /\ b = 0 THEN 0
    ELSE 2 * BitOr(a \div 2, b \div 2) + (IF a % 2 = 1 \/ b % 2 = 1 THEN 1 ELSE 0)

RECURSIVE BitAnd(_, _)
BitAnd(a, b) ==
    IF a = 0 \/ b = 0 THEN 0
    ELSE 2 * BitAnd(a \div 2, b \div 2) + (IF a % 2 = 1 /\ b % 2 = 1 THEN 1 ELSE 0)

\* Abstract addresses
Null == <<"null">>
BufPtr(buf) == <<"buf", buf.id>>
\* info.1.as_mut_ptr(): the iovec array inside the boxed bundle
IovArrPtr == <<"info", "iov">>
\* socket_addr.as_ptr() of the address stored inside the boxed bundle
AddrPtr == <<"info", "addr">>

\* Inputs: an IoBuf with bytes_init() = len, a destination address
Lens == {16, MSG_ZEROCOPY_THRESHOLD - 1, MSG_ZEROCOPY_THRESHOLD}
Bufs == {[id |-> 1, len |-> l] : l \in Lens}
NetAddrs == {[fam |-> "v4"], [fam |-> "v6"]}
UnixAddrs == {[fam |-> "unix", len |-> 5], [fam |-> "unix", len |-> 110]}
RegIdxs == {None, Some(0), Some(5)}

\* socket_addr.map(Into::into): SocketAddr -> socket2::SockAddr
\* (sockaddr_in is 16 bytes, sockaddr_in6 28 bytes); UnixSocketAddr -> itself
ConvertAddr(a) ==
    IF a = None THEN None
    ELSE IF a[1].fam = "v4" THEN Some([fam |-> "v4", len |-> 16])
    ELSE IF a[1].fam = "v6" THEN Some([fam |-> "v6", len |-> 28])
    ELSE a

\* match info.0.as_ref(): msg_name / msg_namelen
MsgNameFieldsNoLen(hdr, conv) ==
    IF conv = None THEN [hdr EXCEPT !.msg_name = Null, !.msg_namelen = 0]
    ELSE [hdr EXCEPT !.msg_name = AddrPtr, !.msg_namelen = 0]
MsgNameFields(hdr, conv) ==
    IF conv = None THEN [hdr EXCEPT !.msg_name = Null, !.msg_namelen = 0]
    ELSE [hdr EXCEPT !.msg_name = AddrPtr, !.msg_namelen = conv[1].len]

\* The boxed (Option<addr>, [iovec; 1], msghdr) of send_msg / send_msg_unix
BuildInfo(buf, addr) ==
    LET conv == ConvertAddr(addr)
        iov == [iov_base |-> BufPtr(buf), iov_len |-> buf.len]
        zeroed == [msg_name |-> Null, msg_namelen |-> 0, msg_iov |-> Null, msg_iovlen |-> 0]
        hdr1 == [zeroed EXCEPT !.msg_iov = IovArrPtr, !.msg_iovlen = 1]
    IN [addr |-> conv, iov |-> <<iov>>, hdr |-> MsgNameFields(hdr1, conv)]

\* zero_copy_flag_guard
ZeroCopyFlagGuardStrict(buf) ==
    IF buf.len > MSG_ZEROCOPY_THRESHOLD THEN BitOr(MSG_NOSIGNAL, MSG_ZEROCOPY)
    ELSE MSG_NOSIGNAL
ZeroCopyFlagGuard(buf) ==
    IF buf.len >= MSG_ZEROCOPY_THRESHOLD THEN BitOr(MSG_NOSIGNAL, MSG_ZEROCOPY)
    ELSE MSG_NOSIGNAL

\* Send::uring_op
SendUringOp(o, zc) ==
    [opcode |-> "Send", fd |-> "fd", ptr |-> BufPtr(o.buf), len |-> o.buf.len,
     flags |-> IF zc THEN ZeroCopyFlagGuard(o.buf) ELSE MSG_NOSIGNAL]

\* SendMsg::uring_op
SendMsgUringOp(o) ==
    [opcode |-> "SendMsg", fd |-> "fd", ptr |-> <<"info", "hdr">>, len |-> 0, flags |-> MSG_NOSIGNAL]

\* SendMsgUnix::uring_op
SendMsgUnixUringOp(o) ==
    [opcode |-> "SendMsg", fd |-> "fd", ptr |-> <<"info", "hdr">>, len |-> 0, flags |-> MSG_NOSIGNAL]

UringOp(o, zc) ==
    CASE o.kind = "Send" -> SendUringOp(o, zc)
      [] o.kind = "SendMsg" -> SendMsgUringOp(o)
      [] OTHER -> SendMsgUnixUringOp(o)

\* legacy_interest of Send / SendMsg / SendMsgUnix:
\* self.fd.registered_index().map(|idx| (Direction::Write, idx))
SendLegacyInterestRead(reg) == IF reg = None THEN None ELSE Some(<<"Read", reg[1]>>)
SendLegacyInterest(reg) == IF reg = None THEN None ELSE Some(<<"Write", reg[1]>>)
SendMsgLegacyInterest(reg) == IF reg = None THEN None ELSE Some(<<"Write", reg[1]>>)
SendMsgUnixLegacyInterest(reg) == IF reg = None THEN None ELSE Some(<<"Write", reg[1]>>)

LegacyInterest(o, reg) ==
    CASE o.kind = "Send" -> SendLegacyInterest(reg)
      [] o.kind = "SendMsg" -> SendMsgLegacyInterest(reg)
      [] OTHER -> SendMsgUnixLegacyInterest(reg)

\* flags argument of the legacy_call syscalls
SendLegacyFlagsAlwaysZero(os) == 0
SendLegacyFlags(os) == IF os = "linux" THEN MSG_NOSIGNAL ELSE 0
SendMsgLegacyFlags(os) == IF os = "linux" THEN MSG_NOSIGNAL ELSE 0
SendMsgUnixLegacyFlags(os) == IF os = "linux" THEN MSG_NOSIGNAL ELSE 0

LegacyFlags(o, os) ==
    CASE o.kind = "Send" -> SendLegacyFlags(os)
      [] o.kind = "SendMsg" -> SendMsgLegacyFlags(os)
      [] OTHER -> SendMsgUnixLegacyFlags(os)

\* syscall_u32! / syscall!: one libc call, a negative return becomes
\* io::Error::last_os_error()
SyscallsPerCall == 1

\* Completion results reported by the kernel for a buffer of length len
Ok(n) == [ok |-> TRUE, v |-> n, e |-> "none"]
Err(e) == [ok |-> FALSE, v |-> 0, e |-> e]
Results(len) == {Ok(0), Ok(len), Err("EPIPE"), Err("EAGAIN")}

\* write() / wait(): (complete.meta.result.map(|v| v as _), complete.data.buf)
MapResult(r) == IF r.ok THEN Ok(r.v) ELSE r
BufResultErrDropsBuf(r, o) ==
    [res |-> MapResult(r), buf |-> IF r.ok THEN o.buf ELSE [id |-> 0, len |-> 0]]
BufResult(r, o) == [res |-> MapResult(r), buf |-> o.buf]

\* SharedFd: dropping one reference closes the descriptor with the last one
DropFdRef(n) == [rc |-> n - 1, open |-> n - 1 > 0]
\* fd.clone() in send_raw
SendRawFdNoClone(n) == n
SendRawFd(n) == n + 1

VARIABLES
    \* sequential client of the registry
    smap, shist, sget,
    \* concurrent clients of the registry
    creg, cmap, lock, poisoned, pc, cur, snap, nops, hist, held, rc, getres,
    \* one send operation on one socket
    os, backend, zc, regidx, owner, fdrc, fdopen, phase, op, argbuf, argaddr,
    sqe, interest, ncalls, nsys, callflags, kres, ret

seqvars == <<smap, shist, sget>>
opvars == <<os, backend, zc, regidx, owner, fdrc, fdopen, phase, op, argbuf,
           argaddr, sqe, interest, ncalls, nsys, callflags, kres, ret>>
cvars == <<creg, cmap, lock, poisoned, pc, cur, snap, nops, hist, held, rc, getres>>

\* ===========================================================================
\* Sequential registry: register/unregister/get on one thread
\* ===========================================================================
SIds == {1, 2}
SHandles == {"h1", "h2"}

SeqInit ==
    /\ smap = [r \in Regs |-> {}]
    /\ shist = << >>
    /\ sget = [reg |-> "UNPARK", id |-> 1, res |-> None, hlen |-> 0]

\* register_unpark_handle / register_waker_sender
SRegister(r, id, h) ==
    /\ Len(shist) < MaxSeq
    /\ smap' = [smap EXCEPT ![r] = Insert(@, id, h)]
    /\ shist' = Append(shist, [kind |-> "register", reg |-> r, id |-> id, h |-> h])
    /\ UNCHANGED sget

\* unregister_unpark_handle / unregister_waker_sender
SUnregister(r, id) ==
    /\ Len(shist) < MaxSeq
    /\ smap' = [smap EXCEPT ![r] = Remove(@, id)]
    /\ shist' = Append(shist, [kind |-> "unregister", reg |-> r, id |-> id, h |-> "none"])
    /\ UNCHANGED sget

\* get_unpark_handle / get_waker_sender
SGet(r, id) ==
    /\ Len(shist) < MaxSeq
    /\ sget' = [reg |-> r, id |-> id, res |-> Lookup(smap[r], id), hlen |-> Len(shist)]
    /\ UNCHANGED <<smap, shist>>

SeqNext ==
    \/ \E r \in Regs, id \in SIds, h \in SHandles : SRegister(r, id, h)
    \/ \E r \in Regs, id \in SIds : SUnregister(r, id)
    \/ \E r \in Regs, id \in SIds \cup {3} : SGet(r, id)

\* ===========================================================================
\* Concurrent registry: threads, each owning driver id t, behind
\* one std::sync::Mutex per map (the lock! macro). The two maps never
\* interact, so a behaviour uses one of them, creg, chosen initially.
\* Handles are reference-counted objects <<t, n>> (UnparkHandle and
\* flume::Sender are Arc-like; clone increments, drop decrements).
\* ===========================================================================
\* two threads racing on a registry, and an id no thread registers
Threads == {1, 2}
CIds == {1, 2, 3}
HandleObjs == Threads \X (1..MaxOps)
NoOp == [kind |-> "none", reg |-> "none", id |-> 0, h |-> None]

CInit ==
    /\ creg \in Regs
    /\ cmap = [r \in Regs |-> {}]
    /\ lock = [r \in Regs |-> 0]
    /\ poisoned = [r \in Regs |-> FALSE]
    /\ pc = [t \in Threads |-> "idle"]
    /\ cur = [t \in Threads |-> NoOp]
    /\ snap = [t \in Threads |-> {}]
    /\ nops = [t \in Threads |-> 0]
    /\ hist = [t \in Threads |-> << >>]
    /\ held = [t \in Threads |-> None]
    /\ rc = [o \in HandleObjs |-> 0]
    /\ getres = [t \in Threads |-> [reg |-> "none", id |-> 0, res |-> None, hlen |-> 0]]

\* Drop of an Option<handle>
DropOpt(f, o) == IF o = None THEN f ELSE [f EXCEPT ![o[1]] = @ - 1]
\* get(&id).cloned(): the returned Option<handle> owns a new reference
CloneOptNoIncrement(f, o) == f
CloneOpt(f, o) == IF o = None THEN f ELSE [f EXCEPT ![o[1]] = @ + 1]

\* Mutex::lock() can only be taken while no other guard is alive
LockFreeRacy(r) == TRUE
LockFree(r) == lock[r] = 0

\* .expect("Unable to lock global map, ...") on the LockResult
LockOkIntoInner(r) == TRUE
LockOk(r) == ~poisoned[r]

\* A thread starts one of the six registry functions; a register call
\* creates the handle it passes in (an owned reference).
BeginRegister(t, r) ==
    LET h == <<t, nops[t] + 1>> IN
    /\ pc[t] = "idle" /\ nops[t] < MaxOps
    /\ cur' = [cur EXCEPT ![t] = [kind |-> "register", reg |-> r, id |-> t, h |-> Some(h)]]
    /\ rc' = [rc EXCEPT ![h] = 1]
    /\ pc' = [pc EXCEPT ![t] = "acquire"]
    /\ UNCHANGED <<creg, cmap, lock, poisoned, snap, nops, hist, held, getres>>

BeginUnregister(t, r) ==
    /\ pc[t] = "idle" /\ nops[t] < MaxOps
    /\ cur' = [cur EXCEPT ![t] = [kind |-> "unregister", reg |-> r, id |-> t, h |-> None]]
    /\ pc' = [pc EXCEPT ![t] = "acquire"]
    /\ UNCHANGED <<creg, cmap, lock, poisoned, snap, nops, hist, held, rc, getres>>

BeginGet(t, r, id) ==
    /\ pc[t] = "idle" /\ nops[t] < MaxOps
    /\ cur' = [cur EXCEPT ![t] = [kind |-> "get", reg |-> r, id |-> id, h |-> None]]
    /\ pc' = [pc EXCEPT ![t] = "acquire"]
    /\ UNCHANGED <<creg, cmap, lock, poisoned, snap, nops, hist, held, rc, getres>>

\* lock!(MAP): take the mutex; on a poisoned mutex expect() panics and the
\* unwinding drops the guard and the call's owned arguments.
Acquire(t) ==
    LET r == cur[t].reg IN
    /\ pc[t] = "acquire"
    /\ LockFree(r)
    /\ IF LockOk(r)
       THEN /\ lock' = [lock EXCEPT ![r] = t]
            /\ snap' = [snap EXCEPT ![t] = cmap[r]]
            /\ pc' = [pc EXCEPT ![t] = "locked"]
            /\ UNCHANGED <<rc, held>>
       ELSE /\ pc' = [pc EXCEPT ![t] = "poisonpanic"]
            /\ rc' = DropOpt(DropOpt(rc, cur[t].h), held[t])
            /\ held' = [held EXCEPT ![t] = None]
            /\ UNCHANGED <<lock, snap>>
    /\ UNCHANGED <<creg, cmap, poisoned, cur, nops, hist, getres>>

\* The map operation under the guard, then the guard's drop.
Commit(t) ==
    LET r == cur[t].reg
        req == cur[t]
        m == snap[t]
    IN
    /\ pc[t] = "locked"
    /\ lock' = [lock EXCEPT ![r] = 0]
    /\ pc' = [pc EXCEPT ![t] = "idle"]
    /\ nops' = [nops EXCEPT ![t] = @ + 1]
    /\ CASE req.kind = "register" ->
              \* insert returns the displaced value, which is dropped
              /\ cmap' = [cmap EXCEPT ![r] = Insert(m, req.id, req.h[1])]
              /\ rc' = DropOpt(rc, Lookup(m, req.id))
              /\ hist' = [hist EXCEPT ![t] = Append(@, [kind |-> "register", reg |-> r, id |-> req.id, h |-> req.h[1]])]
              /\ UNCHANGED <<held, getres>>
         [] req.kind = "unregister" ->
              \* remove returns the removed value, which is dropped
              /\ cmap' = [cmap EXCEPT ![r] = Remove(m, req.id)]
              /\ rc' = DropOpt(rc, Lookup(m, req.id))
              /\ hist' = [hist EXCEPT ![t] = Append(@, [kind |-> "unregister", reg |-> r, id |-> req.id, h |-> None])]
              /\ UNCHANGED <<held, getres>>
         [] OTHER ->
              \* the clone is made under the guard; the caller's previous
              \* result is dropped when overwritten
              LET res == Lookup(m, req.id) IN
              /\ rc' = DropOpt(CloneOpt(rc, res), held[t])
              /\ held' = [held EXCEPT ![t] = res]
              /\ getres' = [getres EXCEPT ![t] = [reg |-> r, id |-> req.id, res |-> res, hlen |-> Len(hist[t])]]
              /\ UNCHANGED <<cmap, hist>>
    /\ UNCHANGED <<creg, poisoned, cur, snap>>

\* A panic while the guard is alive poisons the mutex; unwinding releases
\* the guard and drops the call's owned arguments.
PanicInLock(t) ==
    LET r == cur[t].reg IN
    /\ pc[t] = "locked"
    /\ poisoned' = [poisoned EXCEPT ![r] = TRUE]
    /\ lock' = [lock EXCEPT ![r] = 0]
    /\ pc' = [pc EXCEPT ![t] = "panicked"]
    /\ rc' = DropOpt(DropOpt(rc, cur[t].h), held[t])
    /\ held' = [held EXCEPT ![t] = None]
    /\ UNCHANGED <<creg, cmap, cur, snap, nops, hist, getres>>

\* The caller drops the handle it got from get_*
DropHeld(t) ==
    /\ pc[t] = "idle"
    /\ held[t] # None
    /\ rc' = DropOpt(rc, held[t])
    /\ held' = [held EXCEPT ![t] = None]
    /\ UNCHANGED <<creg, cmap, lock, poisoned, pc, cur, snap, nops, hist, getres>>

CNext ==
    \E t \in Threads :
        \/ BeginRegister(t, creg)
        \/ BeginUnregister(t, creg)
        \/ \E id \in CIds : BeginGet(t, creg, id)
        \/ Acquire(t)
        \/ Commit(t)
        \/ PanicInLock(t)
        \/ DropHeld(t)

\* ===========================================================================
\* One send operation: construction (with Op::submit_with), the backend
\* driving it, and write()/wait() returning (result, buffer).
\* ===========================================================================
\* Build targets: io_uring on Linux, the readiness driver (legacy/poll-io)
\* on Linux, macOS and Windows; zc is the "zero-copy" feature.
Configs ==
    {[os |-> "linux", backend |-> "uring"], [os |-> "linux", backend |-> "legacy"],
     [os |-> "macos", backend |-> "legacy"], [os |-> "windows", backend |-> "legacy"]}

OpInit ==
    /\ \E c \in Configs : os = c.os /\ backend = c.backend
    /\ zc \in BOOLEAN
    /\ regidx \in RegIdxs
    /\ owner = TRUE
    /\ fdrc = 1
    /\ fdopen = TRUE
    /\ phase = "start"
    /\ op = None
    /\ argbuf = None
    /\ argaddr = None
    /\ sqe = None
    /\ interest = "unset"
    /\ ncalls = 0
    /\ nsys = 0
    /\ callflags = {}
    /\ kres = None
    /\ ret = None

Submitted(o) ==
    IF o.ctor # "send_raw" /\ backend = "uring"
    THEN /\ sqe' = UringOp(o, zc)
         /\ phase' = "submitted"
    ELSE /\ phase' = "pending"
         /\ UNCHANGED sqe

\* Op::send(fd.clone(), buf): the caller hands the operation its own
\* SharedFd reference; Op::submit_with pushes uring_op() on io_uring.
Send_send(b) ==
    LET o == [kind |-> "Send", ctor |-> "send", buf |-> b, info |-> "none"] IN
    /\ phase = "start" /\ fdopen
    /\ fdrc' = fdrc + 1
    /\ op' = o
    /\ argbuf' = b
    /\ Submitted(o)
    /\ UNCHANGED <<os, backend, zc, regidx, owner, fdopen, argaddr, interest,
                   ncalls, nsys, callflags, kres, ret>>

\* Op::send_raw(&fd, buf): clones the SharedFd itself; the state is driven
\* by the readiness path (poll-io) and dropped by its caller.
Send_send_raw(b) ==
    LET o == [kind |-> "Send", ctor |-> "send_raw", buf |-> b, info |-> "none"] IN
    /\ phase = "start" /\ fdopen
    /\ fdrc' = SendRawFd(fdrc)
    /\ op' = o
    /\ argbuf' = b
    /\ phase' = "pending"
    /\ UNCHANGED <<os, backend, zc, regidx, owner, fdopen, argaddr, sqe, interest,
                   ncalls, nsys, callflags, kres, ret>>

\* Op::send_msg(fd.clone(), buf, addr); on Windows it is unimplemented!()
\* and the panic drops the arguments.
SendMsg_send_msg(b, a) ==
    LET o == [kind |-> "SendMsg", ctor |-> "send_msg", buf |-> b, info |-> BuildInfo(b, a)] IN
    /\ phase = "start" /\ fdopen
    /\ argbuf' = b
    /\ argaddr' = a
    /\ IF os = "windows"
       THEN /\ phase' = "panicked"
            /\ UNCHANGED <<fdrc, op, sqe>>
       ELSE /\ fdrc' = fdrc + 1
            /\ op' = o
            /\ Submitted(o)
    /\ UNCHANGED <<os, backend, zc, regidx, owner, fdopen, interest,
                   ncalls, nsys, callflags, kres, ret>>

\* Op::send_msg_unix(fd.clone(), buf, addr) (unix only)
SendMsgUnix_send_msg_unix(b, a) ==
    LET o == [kind |-> "SendMsgUnix", ctor |-> "send_msg_unix", buf |-> b, info |-> BuildInfo(b, a)] IN
    /\ phase = "start" /\ fdopen /\ os # "windows"
    /\ argbuf' = b
    /\ argaddr' = a
    /\ fdrc' = fdrc + 1
    /\ op' = o
    /\ Submitted(o)
    /\ UNCHANGED <<os, backend, zc, regidx, owner, fdopen, interest,
                   ncalls, nsys, callflags, kres, ret>>

\* The socket owning the original SharedFd is dropped
DropOwner ==
    /\ owner
    /\ owner' = FALSE
    /\ fdrc' = DropFdRef(fdrc).rc
    /\ fdopen' = DropFdRef(fdrc).open
    /\ UNCHANGED <<os, backend, zc, regidx, phase, op, argbuf, argaddr, sqe, interest,
                   ncalls, nsys, callflags, kres, ret>>

\* io_uring reports the completion of the submitted entry
UringComplete ==
    /\ phase = "submitted"
    /\ \E r \in Results(op.buf.len) :
          /\ kres' = r
          /\ phase' = "completed"
    /\ UNCHANGED <<os, backend, zc, regidx, owner, fdrc, fdopen, op, argbuf, argaddr, sqe,
                   interest, ncalls, nsys, callflags, ret>>

\* The readiness driver asks legacy_interest() and waits for writability
\* (or, without a registration, calls right away).
LegacyPoll ==
    /\ phase = "pending"
    /\ interest' = LegacyInterest(op, regidx)
    /\ phase' = "ready"
    /\ UNCHANGED <<os, backend, zc, regidx, owner, fdrc, fdopen, op, argbuf, argaddr, sqe,
                   ncalls, nsys, callflags, kres, ret>>

\* legacy_call(): one send/sendmsg syscall; WouldBlock re-arms the interest
LegacyCall ==
    /\ phase = "ready"
    /\ ncalls' = ncalls + 1
    /\ nsys' = nsys + SyscallsPerCall
    /\ callflags' = callflags \cup {LegacyFlags(op, os)}
    /\ \E r \in Results(op.buf.len) :
          IF r = Err("EAGAIN") /\ ncalls < MaxRetry
          THEN /\ phase' = "pending" /\ UNCHANGED kres
          ELSE /\ phase' = "completed" /\ kres' = r
    /\ UNCHANGED <<os, backend, zc, regidx, owner, fdrc, fdopen, op, argbuf, argaddr, sqe,
                   interest, ret>>

\* write() / wait(): the awaited Op yields (meta, data); the pair is built
\* and the rest of the operation state (its SharedFd) is dropped.
WriteOrWait ==
    /\ phase = "completed" /\ op.ctor # "send_raw"
    /\ ret' = BufResult(kres, op)
    /\ op' = None
    /\ fdrc' = DropFdRef(fdrc).rc
    /\ fdopen' = DropFdRef(fdrc).open
    /\ phase' = "returned"
    /\ UNCHANGED <<os, backend, zc, regidx, owner, argbuf, argaddr, sqe, interest,
                   ncalls, nsys, callflags, kres>>

\* The caller of send_raw drops the Send state
DropRawState ==
    /\ phase = "completed" /\ op.ctor = "send_raw"
    /\ op' = None
    /\ fdrc' = DropFdRef(fdrc).rc
    /\ fdopen' = DropFdRef(fdrc).open
    /\ phase' = "dropped"
    /\ UNCHANGED <<os, backend, zc, regidx, owner, argbuf, argaddr, sqe, interest,
                   ncalls, nsys, callflags, kres, ret>>

OpNext ==
    \/ \E b \in Bufs : Send_send(b)
    \/ \E b \in Bufs : Send_send_raw(b)
    \/ \E b \in Bufs, a \in {None} \cup {Some(x) : x \in NetAddrs} : SendMsg_send_msg(b, a)
    \/ \E b \in Bufs, a \in {None} \cup {Some(x) : x \in UnixAddrs} : SendMsgUnix_send_msg_unix(b, a)
    \/ DropOwner
    \/ UringComplete
    \/ LegacyPoll
    \/ LegacyCall
    \/ WriteOrWait
    \/ DropRawState

vars == <<seqvars, cvars, opvars>>
AllInit == SeqInit /\ CInit /\ OpInit

SeqStep == SeqNext /\ UNCHANGED <<cvars, opvars>>
CStep == CNext /\ UNCHANGED <<seqvars, opvars>>
OpStep == OpNext /\ UNCHANGED <<seqvars, cvars>>

SeqSpec == AllInit /\ [][SeqStep]_vars
ConcSpec == AllInit /\ [][CStep]_vars
OpSpec == AllInit /\ [][OpStep]_vars

\* ---------------------------------------------------------------------------
\* Registry claims
\* ---------------------------------------------------------------------------
RegistryInv ==
    /\ \A r \in Regs, id \in SIds \cup {3} :
          /\ Lookup(smap[r], id) = Expected(shist, r, id)
          /\ Cardinality(EntriesOf(smap[r], id)) <= 1
    /\ sget.res = Expected(SubSeq(shist, 1, sget.hlen), sget.reg, sget.id)

UnregisterAbsentNoop ==
    (/\ Len(shist') = Len(shist) + 1
     /\ shist'[Len(shist')].kind = "unregister"
     /\ Expected(shist, shist'[Len(shist')].reg, shist'[Len(shist')].id) = None)
    => smap' = smap

\* C2: for each registry map and any id, after any sequence of register /
\* unregister calls, get(id) returns the handle of the latest register(id, h)
\* not followed by unregister(id), else None; unregister of an absent id is
\* a no-op; at most one entry per id exists.
C2_RegistrySemantics == []RegistryInv /\ [][UnregisterAbsentNoop]_seqvars

C2_Witness ==
    /\ sget.res # None
    /\ \E i, j \in 1..sget.hlen :
          /\ i < j
          /\ shist[i].kind = "register" /\ shist[j].kind = "register"
          /\ shist[i].reg = sget.reg /\ shist[j].reg = sget.reg
          /\ shist[i].id = sget.id /\ shist[j].id = sget.id
          /\ shist[i].h # shist[j].h

\* C3: threads interleaving register/unregister/get on disjoint ids of the
\* same map each see, for their own id, exactly what their own sequence of
\* operations gives in isolation.
C3_DisjointIdsIsolated ==
    /\ \A t \in Threads, r \in Regs : Lookup(cmap[r], t) = Expected(hist[t], r, t)
    /\ \A t \in Threads :
          getres[t].id = t =>
             getres[t].res = Expected(SubSeq(hist[t], 1, getres[t].hlen), getres[t].reg, t)

C3_Witness ==
    \E r \in Regs : \A t \in Threads : Lookup(cmap[r], t) # None

\* C4: a handle returned by get_* is an independent clone that stays alive
\* after the lock is released, even when its entry is unregistered.
C4_GetReturnsLiveClone ==
    \A t \in Threads : held[t] # None => rc[held[t][1]] > 0

C4_Witness ==
    \E t \in Threads :
       /\ held[t] # None
       /\ held[t][1][1] # t
       /\ \A r \in Regs : \A p \in cmap[r] : p[2] # held[t][1]

\* C8: once a thread panics holding a registry lock, every later register /
\* unregister / get on that map panics instead of using the map.
PoisonHalts ==
    \A r \in Regs :
       poisoned[r] =>
         /\ poisoned'[r]
         /\ cmap'[r] = cmap[r]
         /\ \A t \in Threads :
               (pc[t] = "acquire" /\ cur[t].reg = r /\ pc'[t] # "acquire")
                 => pc'[t] = "poisonpanic"

C8_PoisonedLockPanics == [][PoisonHalts]_cvars

C8_Witness == \E t \in Threads : pc[t] = "poisonpanic"

\* ---------------------------------------------------------------------------
\* Send operation claims
\* ---------------------------------------------------------------------------
\* C1: whatever result the backend reports (byte count or OS error),
\* write()/wait() resolves to a pair whose buffer is the buffer supplied at
\* construction, and whose result is the reported one.
C1_BufferReturned ==
    phase = "returned" =>
       /\ ret.buf = argbuf
       /\ ret.res = kres

C1_Witness ==
    /\ phase = "returned"
    /\ ~ret.res.ok
    /\ argaddr # None

\* C5: with zero-copy, Send's io_uring flags are MSG_NOSIGNAL|MSG_ZEROCOPY
\* exactly when bytes_init() >= 10 MiB, MSG_NOSIGNAL alone below; without
\* the feature always MSG_NOSIGNAL.
C5_ZeroCopyThreshold ==
    (sqe # None /\ op # None /\ op.kind = "Send") =>
       sqe.flags = (IF zc /\ op.buf.len >= 10 * 1024 * 1024
                    THEN 16384 + 67108864 ELSE 16384)

C5_Witness ==
    /\ sqe # None /\ op # None /\ op.kind = "Send" /\ zc
    /\ op.buf.len = 10 * 1024 * 1024

\* C6: send_msg / send_msg_unix build a header with one iovec of length
\* bytes_init(); msg_name / msg_namelen are the converted address's pointer
\* and length, or null / 0 without an address.
C6_MsgHeader ==
    (op # None /\ op.kind \in {"SendMsg", "SendMsgUnix"}) =>
       LET hdr == op.info.hdr IN
       /\ hdr.msg_iovlen = 1
       /\ hdr.msg_iov = IovArrPtr
       /\ Len(op.info.iov) = 1
       /\ op.info.iov[1].iov_len = op.buf.len
       /\ op.info.iov[1].iov_base = BufPtr(op.buf)
       /\ (argaddr # None =>
             /\ hdr.msg_name # Null
             /\ hdr.msg_namelen = op.info.addr[1].len
             /\ hdr.msg_namelen = (CASE argaddr[1].fam = "v4" -> 16
                                     [] argaddr[1].fam = "v6" -> 28
                                     [] OTHER -> argaddr[1].len))
       /\ (argaddr = None => hdr.msg_name = Null /\ hdr.msg_namelen = 0)

C6_Witness ==
    /\ op # None /\ op.kind = "SendMsg" /\ argaddr # None
    /\ argaddr[1].fam = "v6"

\* C7: the operation state keeps the descriptor open for its whole lifetime,
\* even after the socket owner is dropped; the descriptor closes only when
\* no reference remains.
C7_FdLiveness ==
    /\ op # None => fdopen
    /\ fdopen <=> fdrc > 0
    /\ fdrc = (IF owner THEN 1 ELSE 0) + (IF op # None THEN 1 ELSE 0)

C7_Witness ==
    /\ ~owner /\ op # None /\ op.ctor = "send_raw"
    /\ phase = "completed"

\* C9: legacy_interest is Some((Write, idx)) exactly when the descriptor has
\* a registration index idx, None otherwise.
C9_LegacyInterest ==
    interest # "unset" =>
       interest = (IF regidx = None THEN None ELSE Some(<<"Write", regidx[1]>>))

C9_Witness ==
    /\ interest # "unset" /\ interest # None
    /\ op # None /\ op.kind = "Send"

\* C10: io_uring entries always carry MSG_NOSIGNAL; legacy_call passes
\* MSG_NOSIGNAL on Linux and 0 elsewhere, with one syscall per call.
C10_NoSigpipe ==
    /\ sqe # None => BitAnd(sqe.flags, 16384) = 16384
    /\ callflags \subseteq {IF os = "linux" THEN 16384 ELSE 0}
    /\ nsys = ncalls

C10_Witness ==
    /\ ncalls >= 2 /\ os = "linux"
    /\ op # None /\ op.kind = "Send"

====
